---- MODULE Spec2Model ----
(***************************************************************************)
(* Model of the log-entry extraction and flow-correlation engine of        *)
(* yamc-oracle: LogReader.find / LogReader.read (log/logreader.py), the    *)
(* out-log entry classes (log/outlog.py) and the SOA out-log provider with *)
(* its group buffer (providers/soaoutlog.py), together with the entry     *)
(* object's text properties, the field rules (FieldRules.eval_rules) and   *)
(* update() taken step by step by several threads.                         *)
(*                                                                         *)
(* Times are seconds on an hour-aligned axis.  The log file is a sequence  *)
(* of text lines; a line is the record                                     *)
(*    [time, ntok, comp, flow, len, nl, wide]                              *)
(* where time is the value of the first bracketed token when it parses     *)
(* under the datetime format (NoTime otherwise), ntok the number of        *)
(* bracketed tokens of the line, comp the third token, flow the number     *)
(* matched by FlowId[:=]\s*(\d+) behind the header tokens (NoFlow when     *)
(* the line has none), len the length of the line in bytes without its    *)
(* newline and nl the number of newline bytes behind it (1, or 0 for a     *)
(* last line the file ends in without a newline).  A line may carry the    *)
(* field wide: 1 when its last character is encoded in two bytes (UTF-8),  *)
(* 0 when every character of the line is one byte.  A string cut out of   *)
(* the file is the record [i, a, b]: the bytes a..b-1 of line i.           *)
(***************************************************************************)
EXTENDS Integers, Sequences, FiniteSets, TLC

\* ------------------------------------------------------------------ bounds
MaxLines == 5          \* lines the log writer appends
MaxFileLines == 4      \* lines of a file handed to the reader alone
MaxCycles == 6         \* polling cycles of one behaviour
MaxEntryLines == 2     \* lines of an entry object exercised on its own
MaxEvals == 3          \* eval_rules calls of one behaviour
MaxThreadCycles == 4   \* update() calls made by the threads together
MaxThreadLines == 3    \* lines of the log file the threads poll
LineLen == 100         \* bytes of a log line written by the writer
MaxClock == 2          \* seconds the clock runs
MaxTableCalls == 3     \* table() calls of one behaviour
MaxSqlCalls == 4       \* sql() calls of one behaviour
MaxLockCalls == 3      \* sql() calls of one behaviour of the locking provider
MaxStatusCalls == 4    \* status() calls of one behaviour

\* ------------------------------------------------------- program constants
SecondsPerMinute == 60
MinutesPerHour == 60
TsTokenLen == 34       \* "<Jan 05, 2024 10:15:00,123 PM UTC>"
MinRange == 70         \* find: while (end - start) > 70
DefaultChunkSize == 1024
DefaultBufferMinutes == 2
DefaultTimeDelta == 1
DefaultSimulatedDelta == 1
HeaderTokens == 4      \* parse_header consumes four bracketed tokens
DOTALL == 16           \* re.DOTALL

NoTime == 0 - 1        \* Python None for a time
NoPos == 0 - 1         \* Python None for a position or a count
NoFlow == "None"       \* Python None for a flow id

Flows == {"1001", "1002"}
Components == {"ca", "cb"}

Min(a, b) == IF a < b THEN a ELSE b

\* A Python assignment "v = <expression>" followed by code F that uses v:
\* the expression is evaluated once, before F runs.  (An operator argument
\* or a LET definition is evaluated again at each of its uses.)
Let(v, F(_)) == CHOOSE r \in {F(x) : x \in {v}} : TRUE

\* ------------------------------------------------------------- file access
RECURSIVE LineStart(_, _)
\* byte offset of the first byte of line i (lines are numbered from 1)
LineStart(f, i) == IF i <= 1 THEN 0 ELSE LineStart(f, i - 1) + f[i - 1].len + f[i - 1].nl

\* os.path.getsize
FileSize(f) == LineStart(f, Len(f) + 1)

RECURSIVE LineAt(_, _, _)
\* the line whose bytes (newline included) contain offset p, searched from i
LineAt(f, i, p) ==
    IF i > Len(f) THEN i
    ELSE IF p <= LineStart(f, i) + f[i].len THEN i
    ELSE LineAt(f, i + 1, p)

RECURSIVE SplitFrom(_, _, _, _)
\* chunk.split("\n") for the bytes p..q-1, p lying in line i
SplitFrom(f, i, p, q) ==
    IF i > Len(f) THEN << [i |-> i, a |-> 0, b |-> 0] >>
    ELSE LET s == LineStart(f, i)
             e == s + f[i].len
         IN  IF q <= e THEN << [i |-> i, a |-> p - s, b |-> q - s] >>
             ELSE << [i |-> i, a |-> p - s, b |-> e - s] >> \o SplitFrom(f, i + 1, e + 1, q)

\* handler.read(n) at offset p: the bytes read and the pieces of split("\n")
ChunkEnd(f, p, n) == Min(p + n, FileSize(f))
ChunkLines(f, p, n) == SplitFrom(f, LineAt(f, 1, p), p, ChunkEnd(f, p, n))

StrLen(s) == s.b - s.a
\* bytes.decode("utf-8") of the bytes read: the two bytes of a wide character
\* decode to one character, a chunk that starts or ends between them raises
\* UnicodeDecodeError
Wide(f, i) == i >= 1 /\ i <= Len(f) /\ f[i].wide = 1
DecodeError(f, lines) ==
    \E k \in 1..Len(lines) :
        /\ Wide(f, lines[k].i)
        /\ StrLen(lines[k]) > 0
        /\ (lines[k].a = f[lines[k].i].len - 1 \/ lines[k].b = f[lines[k].i].len - 1)
\* len(l) of a decoded line
Chars(f, s) ==
    IF Wide(f, s.i) /\ s.a < f[s.i].len - 1 /\ s.b = f[s.i].len THEN StrLen(s) - 1 ELSE StrLen(s)
RECURSIVE ChunkChars(_, _, _)
\* len(chunk) of a decoded chunk: the characters of its lines k.. and the
\* newlines between them
ChunkChars(f, lines, k) ==
    IF k > Len(lines) THEN 0
    ELSE Chars(f, lines[k]) + (IF k < Len(lines) THEN 1 ELSE 0) + ChunkChars(f, lines, k + 1)
EmptyStr == [i |-> 0, a |-> 0, b |-> 0]
\* reminder + lines[0]
Concat(r, s) == IF StrLen(r) = 0 THEN s ELSE [i |-> r.i, a |-> r.a, b |-> s.b]

\* --------------------------------------------------------------- OutLogEntry
\* OutLogEntry.parse_datetime: the first "<...>" of the string, parsed by
\* strptime; a string that starts inside the line or ends inside the
\* timestamp token has no parseable first token.
ParseDatetime(f, s) ==
    IF s.i >= 1 /\ s.i <= Len(f) /\ s.a = 0 /\ s.b >= TsTokenLen
       /\ f[s.i].ntok >= 1 /\ f[s.i].time # NoTime
    THEN f[s.i].time ELSE NoTime

\* OutLogEntry.parse_header on a line: TRUE when four tokens were consumed
ParseHeaderOk(f, s) ==
    /\ ParseDatetime(f, s) # NoTime
    /\ s.b = f[s.i].len
    /\ f[s.i].ntok >= HeaderTokens

\* ------------------------------------------------- the text of an entry
\* The text of a line handed to an entry object is a sequence of characters;
\* "t" and "u" stand for the text of two well-formed timestamps, "i", "c" and
\* "b" for the text of a type, a component and a diagnostic code, "e" for the
\* dotted name of an exception class and "x" for any other character.
NewLine == "NL"
None == << "None" >>       \* Python None for a text

\* s[a:b]
Slice(s, a, b) == SubSeq(s, a + 1, b)

RECURSIVE IndexFrom(_, _, _)
\* s.find(c, pos)
IndexFrom(s, c, pos) ==
    IF pos >= Len(s) THEN NoPos
    ELSE IF s[pos + 1] = c THEN pos
    ELSE IndexFrom(s, c, pos + 1)

RECURSIVE Join(_, _)
\* "\n".join(lines) for the lines k..
Join(lines, k) ==
    IF k > Len(lines) THEN << >>
    ELSE IF k = Len(lines) THEN lines[k]
    ELSE lines[k] \o << NewLine >> \o Join(lines, k + 1)

\* datetime.strptime(text, datetime_format); NoTime stands for ValueError
Strptime(text) ==
    IF text = << "t" >> THEN 0
    ELSE IF text = << "u" >> THEN SecondsPerMinute
    ELSE NoTime

RECURSIVE line_parser(_, _)
\* OutLogEntry.line_parser: the pairs it yields from pos on
line_parser(line, pos) ==
    IF pos >= Len(line) THEN << >>
    ELSE Let(IndexFrom(line, "<", pos),
             LAMBDA pos1 :
               IF pos1 = NoPos THEN << >>
               ELSE Let(IndexFrom(line, ">", pos1 + 1),
                        LAMBDA pos2 :
                          IF pos2 = NoPos THEN << >>
                          ELSE << << Slice(line, pos1 + 1, pos2), pos2 + 1 >> >>
                               \o line_parser(line, pos2 + 1)))

\* OutLogEntry.__init__; finished is history: finish() was called
OutLogEntry ==
    [time |-> NoTime, type |-> None, component |-> None, bea_code |-> None,
     startinx_payload |-> 0, exception |-> None, lines |-> << >>,
     _payload |-> None, _message |-> None, finished |-> FALSE]

\* mutant: the cached message is kept when a line is appended
MutAddLineKeepsMessage(e, line) ==
    [e EXCEPT !.lines = Append(@, line), !._payload = None]

\* LogEntry.add_line
add_line(e, line) ==
    [e EXCEPT !.lines = Append(@, line), !._payload = None, !._message = None]

\* OutLogEntry.parse_header: the value returned and the entry afterwards.
\* The assignments made before next(parser) or strptime raises stay.
parse_header(e, line) ==
    Let(line_parser(line, 0),
        LAMBDA parser :
          IF Len(parser) < 1 \/ Strptime(parser[1][1]) = NoTime
          THEN [ret |-> FALSE, e |-> e]
          ELSE Let([e EXCEPT !.time = Strptime(parser[1][1])],
                   LAMBDA e1 :
                     IF Len(parser) < 2 THEN [ret |-> FALSE, e |-> e1]
                     ELSE IF Len(parser) < 3
                     THEN [ret |-> FALSE, e |-> [e1 EXCEPT !.type = parser[2][1]]]
                     ELSE IF Len(parser) < HeaderTokens
                     THEN [ret |-> FALSE,
                           e |-> [e1 EXCEPT !.type = parser[2][1],
                                            !.component = parser[3][1]]]
                     ELSE [ret |-> TRUE,
                           e |-> add_line([e1 EXCEPT !.type = parser[2][1],
                                                     !.component = parser[3][1],
                                                     !.bea_code = parser[4][1],
                                                     !.startinx_payload = parser[4][2]],
                                          line)]))

\* LogEntry.message: the value returned and the entry afterwards
message(e) ==
    IF e._message = None
    THEN Let(Join(e.lines, 1), LAMBDA m : [val |-> m, e |-> [e EXCEPT !._message = m]])
    ELSE [val |-> e._message, e |-> e]

\* LogEntry.payload: the value returned and the entry afterwards
payload(e) ==
    IF e._payload = None
    THEN Let(message(e),
             LAMBDA r :
               Let(IF Len(r.val) > e.startinx_payload
                   THEN Slice(r.val, e.startinx_payload, Len(r.val)) ELSE r.val,
                   LAMBDA p : [val |-> p, e |-> [r.e EXCEPT !._payload = p]]))
    ELSE [val |-> e._payload, e |-> e]

\* OutLogEntry.finish: the exception names found in the payload
finish(e) ==
    Let(payload(e),
        LAMBDA r :
          [r.e EXCEPT !.exception = IF \E k \in 1..Len(r.val) : r.val[k] = "e"
                                    THEN << "e" >> ELSE @,
                      !.finished = TRUE])

\* ---------------------------------------------------------------- FieldRules
\* A compiled pattern is the set of the characters it matches ("a", "b" or
\* "a|b"); a component pattern is ".*" or the name of a component.
RECURSIVE Search(_, _, _)
\* pattern.search(text, pos): the index of the first match at or after pos
Search(pattern, text, pos) ==
    IF pos >= Len(text) THEN NoPos
    ELSE IF text[pos + 1] \in pattern THEN pos
    ELSE Search(pattern, text, pos + 1)

\* m.group()
Group(text, m) == << text[m + 1] >>

\* v["component"] == ".*" or v["__component"].search(component)
ComponentMatches(v, comp) == v.component = ".*" \/ v.component = comp

\* the dict "fields" is a function on the field names; Unset marks a name
\* that is not a key of the dict
Unset == << "Unset" >>
FieldNames == {"f", "g"}

\* the body of "for v2 in v['fields']" for one definition:
\* "v2['__pattern'].search(payload, re.DOTALL)" passes re.DOTALL as pos
EvalField(fs, v2, text) ==
    IF fs[v2.field] \in {Unset, None}
    THEN Let(Search(v2.pattern, text, DOTALL),
             LAMBDA m : [fs EXCEPT ![v2.field] =
                            IF m # NoPos /\ v2.value = None THEN Group(text, m)
                            ELSE IF m # NoPos THEN v2.value
                            ELSE None])
    ELSE fs

RECURSIVE EvalFields(_, _, _, _)
EvalFields(fs, defs, k, text) ==
    IF k > Len(defs) THEN fs
    ELSE Let(EvalField(fs, defs[k], text), LAMBDA v : EvalFields(v, defs, k + 1, text))

RECURSIVE EvalRules(_, _, _, _, _)
\* "for v in self.rules"
EvalRules(fs, rs, k, comp, text) ==
    IF k > Len(rs) THEN fs
    ELSE Let(IF ComponentMatches(rs[k], comp) THEN EvalFields(fs, rs[k].fields, 1, text) ELSE fs,
             LAMBDA v : EvalRules(v, rs, k + 1, comp, text))

\* mutant: a matched value is stored in the rule as its literal value
MutEvalRulesStoresValue(rs, comp, text) ==
    Let(EvalRules([n \in FieldNames |-> Unset], rs, 1, comp, text),
        LAMBDA fs :
          [fields |-> fs,
           rules |-> [k \in 1..Len(rs) |->
                        [rs[k] EXCEPT !.fields =
                            [j \in 1..Len(@) |->
                                [@[j] EXCEPT !.value =
                                    IF fs[rs[k].fields[j].field] \notin {Unset, None}
                                    THEN fs[rs[k].fields[j].field] ELSE @]]]]])

\* FieldRules.eval_rules(component, payload): the mapping returned and the
\* rules afterwards
eval_rules(rs, comp, text) ==
    [fields |-> EvalRules([n \in FieldNames |-> Unset], rs, 1, comp, text), rules |-> rs]

\* ------------------------------------------------------------ LogReader.find
\* one pass of "for l in lines" over the pieces k.. of a chunk read at
\* chunk_pos; st = [dt_pos, count, first_pos, second_pos], cur = current_bytes
RECURSIVE FindLines(_, _, _, _, _, _, _)
FindLines(f, time, lines, k, chunk_pos, cur, st) ==
    IF k > Len(lines) THEN st
    ELSE LET dt == ParseDatetime(f, lines[k])
             st1 == IF dt = NoTime THEN st
                    ELSE [dt_pos |-> chunk_pos + cur,
                          count |-> st.count + 1,
                          first_pos |-> IF time <= dt THEN chunk_pos ELSE st.first_pos,
                          second_pos |-> IF time > dt \/ chunk_pos = 0
                                         THEN chunk_pos ELSE st.second_pos]
         IN  IF st1.first_pos # NoPos /\ st1.second_pos # NoPos THEN st1
             ELSE Let(<< cur + Chars(f, lines[k]) + 1, st1 >>,
                      LAMBDA v : FindLines(f, time, lines, k + 1, chunk_pos, v[1], v[2]))

\* "while count < 2": read chunks from chunk_pos on; the result carries the
\* chunk_pos the loop ends with.  FindChunks, FindLoop and Find are the
\* search run to its end on a file of one-byte characters, where len(chunk)
\* is the number of bytes read and chunk_pos is the position of the handle;
\* FindEnter .. FindDecide below are the same search step by step on any file.
RECURSIVE FindChunks(_, _, _, _, _, _, _)
FindChunks(f, time, chunk_size, start, end, chunk_pos, st) ==
    IF st.count >= 2 THEN [st |-> st, chunk_pos |-> chunk_pos]
    ELSE LET n == Min(chunk_size, end - start)
             st1 == FindLines(f, time, ChunkLines(f, chunk_pos, n), 1, chunk_pos, 0, st)
             chunk_pos1 == ChunkEnd(f, chunk_pos, n)
         IN  IF chunk_pos1 >= end THEN [st |-> st1, chunk_pos |-> chunk_pos1]
             ELSE Let(<< chunk_pos1, st1 >>,
                      LAMBDA v : FindChunks(f, time, chunk_size, start, end, v[1], v[2]))

\* "while (end - start) > 70": the binary search over the byte range
RECURSIVE FindLoop(_, _, _, _, _, _)
FindLoop(f, time, chunk_size, start, end, dt_pos) ==
    IF end - start <= MinRange THEN dt_pos
    ELSE Let(start + (end - start) \div 2,
             LAMBDA pos :
               Let(FindChunks(f, time, chunk_size, start, end, pos,
                              [dt_pos |-> dt_pos, count |-> 0,
                               first_pos |-> NoPos, second_pos |-> NoPos]),
                   LAMBDA r :
                     IF r.st.second_pos = NoPos
                     THEN FindLoop(f, time, chunk_size, start, pos, r.st.dt_pos)
                     ELSE IF r.st.first_pos = NoPos
                     THEN FindLoop(f, time, chunk_size, r.chunk_pos, end, r.st.dt_pos)
                     ELSE r.st.dt_pos))

\* LogReader.find(time, chunk_size)
Find(f, time, chunk_size) == FindLoop(f, time, chunk_size, 0, FileSize(f), NoPos)

\* ------------------------------------------------------------ LogReader.read
\* the entry a header line opens: OutLogEntry.parse_header sets time and
\* component and add_line appends the line; flow_id is None until finish()
NewEntry(f, s) ==
    [inx |-> s.i, time |-> f[s.i].time, component |-> f[s.i].comp,
     flow_id |-> NoFlow, lines |-> << s >>, finished |-> 0]

\* LogEntry.add_line
AddLine(e, s) == [e EXCEPT !.lines = Append(@, s)]

RECURSIVE FirstFlow(_, _, _)
\* FLOW_ID_PATTERN.search(payload): the first flow id of the lines k..
FirstFlow(f, lines, k) ==
    IF k > Len(lines) THEN NoFlow
    ELSE IF StrLen(lines[k]) > 0 /\ f[lines[k].i].flow # NoFlow THEN f[lines[k].i].flow
    ELSE FirstFlow(f, lines, k + 1)

\* SOAOutLogEntry.finish
Finish(f, e) ==
    LET fl == FirstFlow(f, e.lines, 1)
    IN  [e EXCEPT !.flow_id = IF fl # NoFlow THEN fl ELSE @, !.finished = @ + 1]

\* "for inx, l in enumerate(...)" over the lines k..n of one chunk;
\* st = [entry, dt, cnt, out, reads]: the open entry (a sequence of at most
\* one entry), the time of the last line, _count, the entries yielded and
\* the number of handler.read calls made
RECURSIVE ReadLines(_, _, _, _, _, _, _)
ReadLines(f, time_to, count, lines, k, n, st) ==
    IF k > n THEN st
    ELSE LET l == lines[k]
             dt == IF ParseHeaderOk(f, l) THEN f[l.i].time ELSE NoTime
         IN  IF dt # NoTime
             THEN LET yielded == st.entry # << >>
                      st1 == IF yielded
                             THEN [st EXCEPT !.entry = << >>, !.dt = dt, !.cnt = @ + 1,
                                              !.out = Append(@, Finish(f, st.entry[1]))]
                             ELSE [st EXCEPT !.dt = dt]
                  IN  IF yielded /\ count # NoPos /\ st1.cnt >= count THEN st1
                      ELSE IF time_to # NoTime /\ dt > time_to THEN st1
                      ELSE Let([st1 EXCEPT !.entry = << NewEntry(f, l) >>],
                               LAMBDA v : ReadLines(f, time_to, count, lines, k + 1, n, v))
             ELSE Let([st EXCEPT !.entry = IF @ # << >> THEN << AddLine(@[1], l) >> ELSE @,
                                 !.dt = NoTime],
                      LAMBDA v : ReadLines(f, time_to, count, lines, k + 1, n, v))

\* "while dt is None or (time_to is None or dt <= time_to)": one chunk per
\* turn, read at the handle position pos
RECURSIVE ReadChunks(_, _, _, _, _, _, _)
ReadChunks(f, time_to, count, chunk_size, pos, reminder, st) ==
    IF ~(st.dt = NoTime \/ time_to = NoTime \/ st.dt <= time_to) THEN st
    ELSE IF ChunkEnd(f, pos, chunk_size) <= pos THEN [st EXCEPT !.reads = @ + 1]
    ELSE LET split == ChunkLines(f, pos, chunk_size)
             last == split[Len(split)]
             lines == [split EXCEPT ![1] = Concat(reminder, split[1])]
             has_reminder == ~(last.a = 0 /\ last.b = 0)
             n == IF has_reminder THEN Len(lines) - 1 ELSE Len(lines)
         IN  Let(<< lines, n, ChunkEnd(f, pos, chunk_size),
                    IF has_reminder THEN lines[Len(lines)] ELSE EmptyStr >>,
                 LAMBDA v :
                   Let(ReadLines(f, time_to, count, v[1], 1, v[2], [st EXCEPT !.reads = @ + 1]),
                       LAMBDA st1 : ReadChunks(f, time_to, count, chunk_size, v[3], v[4], st1)))

\* "entry, dt = None, None", "_count = 0": the reader before its first read
ReadStart == [entry |-> << >>, dt |-> NoTime, cnt |-> 0, out |-> << >>, reads |-> 0]

\* mutant: a start position of -1 is not tested, the file is read from its
\* first byte
MutReadRunFromStart(f, time_from, time_to, count, chunk_size) ==
    Let(IF time_from # NoTime THEN Find(f, time_from, chunk_size) ELSE 0,
        LAMBDA start_pos :
          Let(ReadChunks(f, time_to, count, chunk_size, IF start_pos < 0 THEN 0 ELSE start_pos,
                         EmptyStr, ReadStart),
              LAMBDA st : [start_pos |-> start_pos, out |-> st.out \o st.entry,
                           reads |-> st.reads]))

\* LogReader.read(time_from, time_to, count, chunk_size) run to its end: the
\* start position, the entries yielded and the handler.read calls made
ReadRun(f, time_from, time_to, count, chunk_size) ==
    Let(IF time_from # NoTime THEN Find(f, time_from, chunk_size) ELSE 0,
        LAMBDA start_pos :
          IF start_pos < 0 THEN [start_pos |-> start_pos, out |-> << >>, reads |-> 0]
          ELSE Let(ReadChunks(f, time_to, count, chunk_size, start_pos, EmptyStr, ReadStart),
                   LAMBDA st : [start_pos |-> start_pos, out |-> st.out \o st.entry,
                                reads |-> st.reads]))

\* the entries LogReader.read(time_from, time_to, count, chunk_size) yields
Read(f, time_from, time_to, count, chunk_size) ==
    ReadRun(f, time_from, time_to, count, chunk_size).out

\* -------------------------------------------------------- round_time_minutes
\* mutant: the minute is rounded, the seconds are kept
MutRoundKeepsSeconds(time, minutes) ==
    LET minute == (time % (MinutesPerHour * SecondsPerMinute)) \div SecondsPerMinute
    IN  time - (minute % minutes) * SecondsPerMinute

\* time.replace(minute=(time.minute // minutes) * minutes, second=0, microsecond=0)
round_time_minutes(time, minutes) ==
    LET hour == time \div (MinutesPerHour * SecondsPerMinute)
        minute == (time % (MinutesPerHour * SecondsPerMinute)) \div SecondsPerMinute
    IN  hour * MinutesPerHour * SecondsPerMinute
        + ((minute \div minutes) * minutes) * SecondsPerMinute

\* datetime.timedelta(minutes=m)
Minutes(m) == m * SecondsPerMinute

\* ----------------------------------------------------------------- GroupEntry
\* mutant: every group accepts every entry
MutAddEntryOkAnyFlow(g, entry) == TRUE

\* mutant: the group also refuses an entry whose component it already holds
MutAddEntryOkNewComponent(g, entry) ==
    \/ Len(g.entries) = 0
    \/ /\ g.entries[1].flow_id = entry.flow_id
       /\ \A k \in 1..Len(g.entries) : g.entries[k].component # entry.component

\* GroupEntry.add_entry accepts the entry: the group is empty or its first
\* entry has the entry's flow id
AddEntryOk(g, entry) ==
    Len(g.entries) = 0 \/ g.entries[1].flow_id = entry.flow_id

\* mutant: first_time is the time of the first entry added
MutAddEntryFirstAdded(g, entry) ==
    [g EXCEPT !.first_time = IF @ = NoTime THEN entry.time ELSE @,
              !.last_time = IF @ = NoTime \/ @ < entry.time THEN entry.time ELSE @,
              !.entries = Append(@, entry),
              !.modified = TRUE]

\* GroupEntry.add_entry, the accepting branch
AddEntry(g, entry) ==
    [g EXCEPT !.first_time = IF @ = NoTime \/ @ > entry.time THEN entry.time ELSE @,
              !.last_time = IF @ = NoTime \/ @ < entry.time THEN entry.time ELSE @,
              !.entries = Append(@, entry),
              !.modified = TRUE]

\* GroupEntry.__init__; gid numbers the group objects in creation order
GroupEntry(entry, gid) ==
    AddEntry([gid |-> gid, entries |-> << >>, first_time |-> NoTime,
              last_time |-> NoTime, modified |-> FALSE], entry)

\* GroupEntry.time, GroupEntry.flow_id, GroupEntry.timespan
GroupTime(g) == g.entries[1].time
GroupFlowId(g) == g.entries[1].flow_id
GroupTimespan(g) == g.last_time - g.first_time

\* GroupEntry.to_dict (the fields mined from the payload by regular
\* expressions are left out)
ToDict(g) ==
    [gid |-> g.gid, time |-> GroupTime(g), flow_id |-> GroupFlowId(g),
     timespan |-> GroupTimespan(g), num_entries |-> Len(g.entries)]

\* --------------------------------------------------- SOAOutLogProvider.update
RECURSIVE FirstAccepting(_, _, _)
\* "for g in self.groups: if g.add_entry(entry): ... break": the index of the
\* first group that accepts the entry, 0 when none does
FirstAccepting(gs, entry, k) ==
    IF k > Len(gs) THEN 0
    ELSE IF AddEntryOk(gs[k], entry) THEN k
    ELSE FirstAccepting(gs, entry, k + 1)

\* mutant: a new group is opened for every entry that has a flow id
MutCollectAlwaysNew(st, entry) ==
    IF entry.flow_id = NoFlow THEN st
    ELSE [groups |-> Append(st.groups, GroupEntry(entry, st.gid)), gid |-> st.gid + 1]

\* the body of "for entry in self.reader.read(...)" for one entry; st is
\* [groups, gid]: the group list and the number of the next group object
Collect(st, entry) ==
    IF entry.flow_id = NoFlow THEN st
    ELSE LET k == FirstAccepting(st.groups, entry, 1)
         IN  IF k # 0
             THEN [st EXCEPT !.groups[k] = AddEntry(@, entry)]
             ELSE [groups |-> Append(st.groups, GroupEntry(entry, st.gid)),
                   gid |-> st.gid + 1]

RECURSIVE CollectAll(_, _, _)
CollectAll(st, entries, k) ==
    IF k > Len(entries) THEN st
    ELSE Let(Collect(st, entries[k]), LAMBDA v : CollectAll(v, entries, k + 1))

\* "for g in self.groups: g.modified = False"
ResetModified(gs) == [k \in 1..Len(gs) |-> [gs[k] EXCEPT !.modified = FALSE]]

\* "self.data.append(g.to_dict())" for the groups before time_emit that were
\* not modified
EmitData(gs, time_emit) ==
    LET keep == SelectSeq(gs, LAMBDA g : GroupTime(g) < time_emit /\ ~g.modified)
    IN  [k \in 1..Len(keep) |-> ToDict(keep[k])]

\* mutant: a group stays while its last entry is not before the boundary
MutRetainByLastTime(gs, time_emit) == SelectSeq(gs, LAMBDA g : g.last_time >= time_emit)

\* "self.groups = [g for g in self.groups if g.time >= time_emit]"
Retain(gs, time_emit) == SelectSeq(gs, LAMBDA g : GroupTime(g) >= time_emit)

\* --------------------------------------------------------------------- state
VARIABLES
    file,                  \* the lines of the log file soaout_log
    simulated_time,        \* config simulated_time.start, NoTime when not set
    simulated_time_delta,  \* config simulated_time.delta
    buffer_minutes,        \* config buffer_minutes
    _time,                 \* SOAOutLogProvider._time
    groups,                \* SOAOutLogProvider.groups
    data,                  \* SOAOutLogProvider.data
    cycle,                 \* history: number of update() calls made
    gid,                   \* history: number of the next GroupEntry object
    last,                  \* history: the values computed by the last update()
    emitted,               \* history: <<gid, cycle>> of every summary emitted
    due,                   \* history: <<gid, cycle>> of every group found before
                           \*          the boundary and not modified
    late,                  \* history: a line was written after the first update()
    call,                  \* the last direct call of LogReader.find or
                           \* LogReader.read: its arguments and its result
    frame,                 \* the local variables of a LogReader.find in progress
    logentry,              \* an OutLogEntry object
    entry_call,            \* history: the last method called on logentry, its
                           \*          argument, what it returned and the object
                           \*          before the call
    rules,                 \* FieldRules.rules
    evals,                 \* history: the eval_rules calls made, each with its
                           \*          arguments, the mapping returned and the
                           \*          rules after the call
    lock,                  \* SOAOutLogProvider.lock: the thread that holds it
    handler,               \* LogReader.handler of the provider's reader
    threads,               \* the threads calling update(): where each one is
                           \* in update() and its local variables
    clock,                 \* time.time(), in seconds
    reconnect_after,       \* DmsProvider.reconnect_after
    dms,                   \* DmsProvider.dms: the items by dms_id
    collectors,            \* the number of DmsCollector objects created
    dms_calls,             \* history: the last table() call made for each
                           \*          dms_id
    dms_call,              \* history: the last table() call, how many were
                           \*          made, and the last call made before it
                           \*          for its dms_id
    cache,                 \* OraDBProvider.cache: the item stored under a key
    items,                 \* the cache items created, in the order of their
                           \* creation
    connections,           \* the database connections opened, in the order of
                           \* their opening: each one open or closed
    max_connections,       \* OraDBProvider.max_connections
    workers,               \* the threads calling sql(): where each one is in
                           \* sql(), its item and the connection of its cursor
    sql_calls,             \* history: the number of sql() calls made
    spm_data,              \* SPMProvider.data: for each host id the time its
                           \* status was fetched
    _updated_time,         \* SPMProvider._updated_time
    max_age,               \* SPMProvider.max_age
    spm_call               \* history: the last status() call and how many
                           \*          were made

vars == << file, simulated_time, simulated_time_delta, buffer_minutes,
           _time, groups, data, cycle, gid, last, emitted, due, late, call, frame,
           logentry, entry_call, rules, evals, lock, handler, threads,
           clock, reconnect_after, dms, collectors, dms_calls, dms_call,
           cache, items, connections, max_connections, workers, sql_calls,
           spm_data, _updated_time, max_age, spm_call >>

\* the state of update() calls in progress
running == << lock, handler, threads >>

\* the objects exercised on their own
objects == << frame, logentry, entry_call, rules, evals >>

\* the provider, its log file and the direct calls of its reader
provider == << file, simulated_time, simulated_time_delta, buffer_minutes,
               _time, groups, data, cycle, gid, last, emitted, due, late, call >>

config == << simulated_time, simulated_time_delta, buffer_minutes >>

\* the providers of the other services
dmsvars == << dms, collectors, dms_calls, dms_call >>
oravars == << cache, items, connections, max_connections, workers, sql_calls >>
spmvars == << spm_data, _updated_time, max_age, spm_call >>
services == << clock, reconnect_after, dmsvars, oravars, spmvars >>

\* The lines the application writes: header lines of four tokens.  The first
\* line of the file is stamped with the origin of the time axis, a later one
\* with the stamp of the line before it plus or minus whole minutes (a line
\* stamped earlier than the line before it is out of time order).
WriterChoices ==
    { << Minutes(1), "1001", "ca" >>, << Minutes(2), "1001", "cb" >>,
      << 0 - Minutes(1), "1002", "ca" >> }
LastStamp(f) == f[Len(f)].time
Stamp(f, d) == IF Len(f) = 0 THEN 0 ELSE LastStamp(f) + d
WriterLines(f) ==
    {[time |-> Stamp(f, w[1]), ntok |-> HeaderTokens, comp |-> w[3], flow |-> w[2],
      len |-> LineLen, nl |-> 1, wide |-> 0] : w \in {x \in WriterChoices : Stamp(f, x[1]) >= 0}}

\* the threads that call update(), and no thread
Threads == {1, 2}
NoThread == 0
\* handler is None
NoHandle == "None"
\* a thread outside update(); outcome, ended and own are history: how its
\* last update() ended, as which cycle, and the summaries that cycle emitted.
\* caller is "soaerrors" when update() was called by soaerrors(), returned
\* and result tell whether that soaerrors() has returned and what
IdleThread == [pc |-> "idle", now |-> NoTime, time_from |-> NoTime, time_to |-> NoTime,
               err |-> FALSE, outcome |-> "none", ended |-> 0, own |-> << >>,
               caller |-> "update", returned |-> FALSE, result |-> << >>]

\* no update() in progress: the lock is free and the reader's file is closed
RunningInit ==
    /\ lock = NoThread
    /\ handler = NoHandle
    /\ threads = [t \in Threads |-> IdleThread]

\* the configured number of seconds after which a provider renews a
\* collector or a connection
ReconnectAfter == 1

\* no table() call made
NoDmsCall == [op |-> "none", n |-> 0]

\* the DmsProvider as constructed
DmsConstructed ==
    /\ reconnect_after = ReconnectAfter
    /\ dms = << >>
    /\ collectors = 0
    /\ dms_calls = << >>
    /\ dms_call = NoDmsCall

\* the configured limit of open database connections
MaxConnections == 1

\* no connection, and a thread outside sql(); outcome is history: how its
\* last sql() ended
NoConnection == 0
NoItem == 0
IdleWorker == [pc |-> "idle", item |-> NoItem, conn |-> NoConnection, outcome |-> "none"]

\* the OraDBProvider as constructed
OraConstructed ==
    /\ cache = << >>
    /\ items = << >>
    /\ connections = << >>
    /\ max_connections = MaxConnections
    /\ workers = [t \in Threads |-> IdleWorker]
    /\ sql_calls = 0

\* the configured number of seconds a fetched status is served
MaxAge == 1

\* no status() call made
NoSpmCall == [op |-> "none", n |-> 0]

\* the SPMProvider as constructed: _updated_time is not set
SpmConstructed ==
    /\ spm_data = << >>
    /\ _updated_time = NoTime
    /\ max_age = MaxAge
    /\ spm_call = NoSpmCall

\* the providers of the other services as constructed
ServicesInit ==
    /\ clock = 0
    /\ DmsConstructed
    /\ OraConstructed
    /\ SpmConstructed

\* no find in progress
NoFrame == [pc |-> "none"]

\* no method called on the entry object yet
NoEntryCall == [op |-> "none", line |-> << >>, ret |-> FALSE, val |-> << >>,
                before |-> OutLogEntry]

\* the objects exercised on their own, before anything is done with them
ObjectsInit ==
    /\ frame = NoFrame
    /\ logentry = OutLogEntry
    /\ entry_call = NoEntryCall
    /\ evals = << >>

\* no direct call of the reader made
NoCall == [op |-> "none", time_from |-> NoTime, time_to |-> NoTime, count |-> NoPos,
           chunk_size |-> DefaultChunkSize, start_pos |-> NoPos, out |-> << >>, reads |-> 0]

NoCycle == [now |-> NoTime, prev |-> NoTime, time_from |-> NoTime, time_to |-> NoTime,
            prev_to |-> NoTime, time_emit |-> NoTime, entries |-> << >>, read |-> << >>]

\* the provider's configuration: the simulated clock started at the origin
\* and advancing one or two minutes a call, or the wall clock
Init ==
    /\ file = << >>
    /\ \/ simulated_time = 0 /\ simulated_time_delta \in {DefaultSimulatedDelta, DefaultSimulatedDelta + 1}
       \/ simulated_time = NoTime /\ simulated_time_delta = DefaultSimulatedDelta
    /\ buffer_minutes = DefaultBufferMinutes
    /\ _time = NoTime
    /\ groups = << >>
    /\ data = << >>
    /\ cycle = 0
    /\ gid = 1
    /\ last = NoCycle
    /\ emitted = {}
    /\ due = {}
    /\ late = FALSE
    /\ call = NoCall
    /\ ObjectsInit
    /\ rules = << >>
    /\ RunningInit
    /\ ServicesInit

\* the application appends one line to the log file
Write ==
    /\ Len(file) < MaxLines
    /\ \E l \in WriterLines(file) : file' = Append(file, l)
    /\ late' = (late \/ cycle > 0)
    /\ UNCHANGED << config, _time, groups, data, cycle, gid, last, emitted, due, call, objects, running, services >>

\* mutant: the simulated clock advances on its first call too
MutSimulatedNowAdvancesFirst ==
    IF _time = NoTime THEN simulated_time + Minutes(simulated_time_delta)
    ELSE _time + Minutes(simulated_time_delta)

\* SOAOutLogProvider.time with the simulated clock
SimulatedNow ==
    IF _time = NoTime THEN simulated_time ELSE _time + Minutes(simulated_time_delta)

\* datetime.datetime.now(): the first poll falls half a minute after the
\* origin, every later poll one minute after the poll before it
RealNows ==
    IF _time = NoTime THEN {SecondsPerMinute \div 2} ELSE {_time + Minutes(1)}

\* SOAOutLogProvider.update(time_delta) with the clock returning now
UpdateAt(now, time_delta) ==
    LET time_from == round_time_minutes(now - Minutes(time_delta), time_delta)
        time_to == round_time_minutes(now, time_delta)
        time_emit == round_time_minutes(now - Minutes(buffer_minutes), time_delta)
    IN  \E entries \in {Read(file, time_from, time_to, NoPos, DefaultChunkSize)} :
        \E st \in {CollectAll([groups |-> ResetModified(groups), gid |-> gid], entries, 1)} :
        /\ cycle < MaxCycles
        /\ _time' = now
        /\ data' = EmitData(st.groups, time_emit)
        /\ groups' = Retain(st.groups, time_emit)
        /\ gid' = st.gid
        /\ cycle' = cycle + 1
        /\ last' = [now |-> now, prev |-> _time, time_from |-> time_from, time_to |-> time_to,
                    prev_to |-> last.time_to, time_emit |-> time_emit,
                    entries |-> entries, read |-> st.groups]
        /\ emitted' = emitted \cup {<< data'[k].gid, cycle' >> : k \in 1..Len(data')}
        /\ due' = due \cup {<< st.groups[k].gid, cycle' >> :
                              k \in {j \in 1..Len(st.groups) :
                                       /\ GroupTime(st.groups[j]) < time_emit
                                       /\ ~st.groups[j].modified}}
        /\ UNCHANGED << file, config, late, call, objects, running, services >>

\* update() of a provider configured with simulated_time.start
UpdateSimulated ==
    /\ simulated_time # NoTime
    /\ UpdateAt(SimulatedNow, DefaultTimeDelta)

\* update() of a provider on the wall clock
UpdateReal ==
    /\ simulated_time = NoTime
    /\ \E now \in RealNows : UpdateAt(now, DefaultTimeDelta)

Next == Write \/ UpdateSimulated \/ UpdateReal

Spec == Init /\ [][Next]_vars

\* ------------------------------------------------- the reader called directly
\* The files handed to the reader: header lines of four tokens carrying a
\* flow id, and continuation lines; the last line with or without its newline.
ReaderTimes == {0, Minutes(1), Minutes(2)}
ContinuationLen == (2 * LineLen) \div 5
ReaderLineKinds ==
    {[time |-> t, ntok |-> HeaderTokens, comp |-> "ca", flow |-> "1001", len |-> LineLen, nl |-> 1,
      wide |-> 0] :
        t \in ReaderTimes}
    \cup {[time |-> NoTime, ntok |-> 0, comp |-> "ca", flow |-> NoFlow, len |-> ContinuationLen, nl |-> 1,
           wide |-> 0]}
ReaderFiles ==
    LET whole == UNION {[1..n -> ReaderLineKinds] : n \in 0..MaxFileLines}
    IN  whole \cup {[f EXCEPT ![Len(f)].nl = 0] : f \in {g \in whole : Len(g) > 0}}

\* the arguments of the calls
FindTimes == ReaderTimes \cup {Minutes(3)}
ChunkSizes == {LineLen \div 2, LineLen + 1, 3 * (LineLen + 1), DefaultChunkSize}
TimesFrom == {NoTime, 0, Minutes(1), Minutes(2)}
TimesTo == {NoTime, Minutes(1), Minutes(2)}
Counts == {NoPos, 1}

\* a reader over one of the files, the provider left as constructed
ReaderInit ==
    /\ file \in ReaderFiles
    /\ simulated_time = NoTime
    /\ simulated_time_delta = DefaultSimulatedDelta
    /\ buffer_minutes = DefaultBufferMinutes
    /\ _time = NoTime
    /\ groups = << >>
    /\ data = << >>
    /\ cycle = 0
    /\ gid = 1
    /\ last = NoCycle
    /\ emitted = {}
    /\ due = {}
    /\ late = FALSE
    /\ call = NoCall
    /\ ObjectsInit
    /\ rules = << >>
    /\ RunningInit
    /\ ServicesInit

\* LogReader.find(time, chunk_size); a call depends on the file and on its
\* arguments only, so one call is made on a file
CallFind ==
    /\ call = NoCall
    /\ \E time \in FindTimes, chunk_size \in ChunkSizes :
          call' = [NoCall EXCEPT !.op = "find", !.time_from = time, !.chunk_size = chunk_size,
                                 !.start_pos = Find(file, time, chunk_size)]
    /\ UNCHANGED << file, config, _time, groups, data, cycle, gid, last, emitted, due, late, objects, running, services >>

\* list(LogReader.read(time_from, time_to, count, chunk_size))
CallRead ==
    /\ call = NoCall
    /\ \E time_from \in TimesFrom, time_to \in TimesTo, count \in Counts, chunk_size \in ChunkSizes :
          \E r \in {ReadRun(file, time_from, time_to, count, chunk_size)} :
             call' = [op |-> "read", time_from |-> time_from, time_to |-> time_to,
                      count |-> count, chunk_size |-> chunk_size,
                      start_pos |-> r.start_pos, out |-> r.out, reads |-> r.reads]
    /\ UNCHANGED << file, config, _time, groups, data, cycle, gid, last, emitted, due, late, objects, running, services >>

ReaderNext == CallFind \/ CallRead

ReaderSpec == ReaderInit /\ [][ReaderNext]_vars

\* ---------------------------------------------- LogReader.find step by step
\* The files searched: the files above that end with a newline, and the same
\* files with a two-byte last character in their last line.
FindFiles ==
    LET whole == {f \in ReaderFiles : Len(f) = 0 \/ f[Len(f)].nl = 1}
    IN  whole \cup {[f EXCEPT ![Len(f)].wide = 1] : f \in {g \in whole : Len(g) > 0}}

\* the provider left as constructed, on the wall clock
ProviderConstructed ==
    /\ simulated_time = NoTime
    /\ simulated_time_delta = DefaultSimulatedDelta
    /\ buffer_minutes = DefaultBufferMinutes
    /\ _time = NoTime
    /\ groups = << >>
    /\ data = << >>
    /\ cycle = 0
    /\ gid = 1
    /\ last = NoCycle
    /\ emitted = {}
    /\ due = {}
    /\ late = FALSE
    /\ call = NoCall
    /\ RunningInit
    /\ ServicesInit

\* the provider left as constructed and no field rules loaded
Constructed ==
    /\ ProviderConstructed
    /\ ObjectsInit
    /\ rules = << >>

FindInit ==
    /\ file \in FindFiles
    /\ Constructed

FindFrame == << provider, running, services, logentry, entry_call, rules, evals >>

\* find is called: "start = 0", "dt_pos = -1", "end = os.path.getsize(...)";
\* hpos is the position of the file handle
FindEnter ==
    /\ frame.pc = "none"
    /\ \E time \in FindTimes, chunk_size \in ChunkSizes :
          frame' = [pc |-> "outer", time |-> time, chunk_size |-> chunk_size,
                    start |-> 0, end |-> FileSize(file), dt_pos |-> NoPos, pos |-> NoPos,
                    first_pos |-> NoPos, second_pos |-> NoPos, chunk_pos |-> NoPos,
                    count |-> 0, hpos |-> 0]
    /\ UNCHANGED FindFrame

\* "while (end - start) > 70": the test, and the seek to the midpoint that
\* opens a probe; "return dt_pos" when the test fails
FindProbe ==
    /\ frame.pc = "outer"
    /\ frame' = IF frame.end - frame.start > MinRange
                THEN Let(frame.start + (frame.end - frame.start) \div 2,
                         LAMBDA pos : [frame EXCEPT !.pc = "inner", !.pos = pos, !.hpos = pos,
                                                    !.first_pos = NoPos, !.second_pos = NoPos,
                                                    !.chunk_pos = pos, !.count = 0])
                ELSE [frame EXCEPT !.pc = "done"]
    /\ UNCHANGED FindFrame

\* one turn of "while count < 2" on the frame fr: a chunk is read at the
\* handle, decoded and scanned, and chunk_pos advances by len(chunk)
ReadChunkTurn(f, fr) ==
    LET n == Min(fr.chunk_size, fr.end - fr.start)
        hpos == ChunkEnd(f, fr.hpos, n)
    IN  Let(ChunkLines(f, fr.hpos, n),
            LAMBDA lines :
              IF DecodeError(f, lines) THEN [fr EXCEPT !.pc = "raised", !.hpos = hpos]
              ELSE Let(<< FindLines(f, fr.time, lines, 1, fr.chunk_pos, 0,
                                    [dt_pos |-> fr.dt_pos, count |-> fr.count,
                                     first_pos |-> fr.first_pos,
                                     second_pos |-> fr.second_pos]),
                          fr.chunk_pos + ChunkChars(f, lines, 1) >>,
                       LAMBDA v :
                         [fr EXCEPT !.dt_pos = v[1].dt_pos, !.count = v[1].count,
                                    !.first_pos = v[1].first_pos,
                                    !.second_pos = v[1].second_pos,
                                    !.chunk_pos = v[2], !.hpos = hpos,
                                    !.pc = IF v[2] >= fr.end \/ v[1].count >= 2
                                           THEN "decide" ELSE "inner"]))

FindReadChunk ==
    /\ frame.pc = "inner"
    /\ frame' = ReadChunkTurn(file, frame)
    /\ UNCHANGED FindFrame

\* the end of a probe on the frame fr: end or start moves, or the search ends
DecideTurn(fr) ==
    IF fr.second_pos = NoPos THEN [fr EXCEPT !.end = fr.pos, !.pc = "outer"]
    ELSE IF fr.first_pos = NoPos THEN [fr EXCEPT !.start = fr.chunk_pos, !.pc = "outer"]
    ELSE [fr EXCEPT !.pc = "done"]

FindDecide ==
    /\ frame.pc = "decide"
    /\ frame' = DecideTurn(frame)
    /\ UNCHANGED FindFrame

FindNext == FindEnter \/ FindProbe \/ FindReadChunk \/ FindDecide

FindSpec == FindInit /\ [][FindNext]_vars

\* ------------------------------------------------- an entry object on its own
Sp == << " " >>
Token(c) == << "<", c, ">" >>
Header(t) == Token(t) \o Sp \o Token("i") \o Sp \o Token("c") \o Sp \o Token("b")
\* the lines parse_header is called with: complete headers with and without
\* text behind the fourth token, lines of fewer than four tokens, a line
\* whose first token is no timestamp, plain text, an unclosed token and the
\* empty line
HeaderLinesIn ==
    { Header("t") \o Sp \o << "x" >>,
      Header("t"),
      Header("u") \o Sp \o << "e" >>,
      Token("u") \o Sp \o Token("i") \o Sp \o Token("c"),
      Token("t") \o Sp \o << "x" >>,
      Token("x") \o Sp \o Header("t"),
      << "x", "x" >>,
      << "<", "t" >>,
      << >> }
\* the lines add_line is called with
ContinuationsIn == { << "x", "x" >>, << "e" >>, << >>, Header("t") }

EntryInit ==
    /\ file = << >>
    /\ Constructed

EntryFrame == << provider, running, services, frame, rules, evals >>

\* entry.parse_header(line)
CallParseHeader ==
    /\ Len(logentry.lines) < MaxEntryLines
    /\ \E line \in HeaderLinesIn :
       \E r \in {parse_header(logentry, line)} :
          /\ logentry' = r.e
          /\ entry_call' = [op |-> "parse_header", line |-> line, ret |-> r.ret,
                            val |-> << >>, before |-> logentry]
    /\ UNCHANGED EntryFrame

\* entry.add_line(line)
CallAddLine ==
    /\ Len(logentry.lines) < MaxEntryLines
    /\ \E line \in ContinuationsIn :
          /\ logentry' = add_line(logentry, line)
          /\ entry_call' = [op |-> "add_line", line |-> line, ret |-> FALSE,
                            val |-> << >>, before |-> logentry]
    /\ UNCHANGED EntryFrame

\* entry.message
CallMessage ==
    /\ \E r \in {message(logentry)} :
          /\ logentry' = r.e
          /\ entry_call' = [op |-> "message", line |-> << >>, ret |-> FALSE,
                            val |-> r.val, before |-> logentry]
    /\ UNCHANGED EntryFrame

\* entry.payload
CallPayload ==
    /\ \E r \in {payload(logentry)} :
          /\ logentry' = r.e
          /\ entry_call' = [op |-> "payload", line |-> << >>, ret |-> FALSE,
                            val |-> r.val, before |-> logentry]
    /\ UNCHANGED EntryFrame

\* entry.finish()
CallFinish ==
    /\ logentry' = finish(logentry)
    /\ entry_call' = [op |-> "finish", line |-> << >>, ret |-> FALSE,
                      val |-> << >>, before |-> logentry]
    /\ UNCHANGED EntryFrame

EntryNext == CallParseHeader \/ CallAddLine \/ CallMessage \/ CallPayload \/ CallFinish

EntrySpec == EntryInit /\ [][EntryNext]_vars

\* ------------------------------------------------------- field rules on their own
\* n characters that no pattern matches
Pad(n) == [k \in 1..n |-> "x"]
\* the payloads: a match at the first character only, a match at character
\* re.DOTALL, and a match of "a" before and of "b" behind character re.DOTALL
Payloads ==
    { << "a" >> \o Pad(DOTALL + 2),
      Pad(DOTALL) \o << "a" >>,
      Pad(2) \o << "a" >> \o Pad(DOTALL) \o << "b" >> }
\* the field definitions of the configuration file
FieldDefsF ==
    {[field |-> "f", pattern |-> p, value |-> v] :
        p \in {{"a"}, {"b"}, {"a", "b"}}, v \in {None, << "V" >>}}
FieldDefsG == {[field |-> "g", pattern |-> {"a"}, value |-> None]}
\* the configurations: a rule of two definitions for all components or for
\* one, followed by a rule of one definition for all components
RuleSets ==
    {<< [component |-> c, fields |-> << d1, d2 >>], [component |-> ".*", fields |-> << d3 >>] >> :
        c \in {".*", "ca"}, d1 \in FieldDefsF, d2 \in FieldDefsF \cup FieldDefsG,
        d3 \in {d \in FieldDefsF \cup FieldDefsG : d.pattern = {"a"} /\ d.value = None}}

RulesInit ==
    /\ file = << >>
    /\ ProviderConstructed
    /\ ObjectsInit
    /\ rules \in RuleSets

RulesFrame == << provider, running, services, frame, logentry, entry_call >>

\* rules.eval_rules(component, payload)
CallEvalRules ==
    /\ Len(evals) < MaxEvals
    /\ \E comp \in Components, text \in Payloads :
       \E r \in {eval_rules(rules, comp, text)} :
          /\ rules' = r.rules
          /\ evals' = Append(evals, [component |-> comp, payload |-> text,
                                     fields |-> r.fields, rules |-> r.rules,
                                     before |-> rules])
    /\ UNCHANGED RulesFrame

RulesNext == CallEvalRules

RulesSpec == RulesInit /\ [][RulesNext]_vars

\* ------------------------------------------- update() called from threads
\* update() step by step, called by the threads of Threads on one provider.
\* The histories last, emitted, due and late describe the cycle taken as one
\* step (UpdateAt) and are left alone here.
RECURSIVE WrittenFiles(_)
\* the files the writer can have written in at most n lines
WrittenFiles(n) ==
    IF n = 0 THEN {<< >>}
    ELSE Let(WrittenFiles(n - 1),
             LAMBDA fs : fs \cup UNION {{Append(f, l) : l \in WriterLines(f)} : f \in fs})

ThreadInit ==
    /\ file \in WrittenFiles(MaxThreadLines)
    /\ \/ simulated_time = 0 /\ simulated_time_delta \in {DefaultSimulatedDelta, DefaultSimulatedDelta + 1}
       \/ simulated_time = NoTime /\ simulated_time_delta = DefaultSimulatedDelta
    /\ buffer_minutes = DefaultBufferMinutes
    /\ _time = NoTime
    /\ groups = << >>
    /\ data = << >>
    /\ cycle = 0
    /\ gid = 1
    /\ last = NoCycle
    /\ emitted = {}
    /\ due = {}
    /\ late = FALSE
    /\ call = NoCall
    /\ ObjectsInit
    /\ rules = << >>
    /\ RunningInit
    /\ ServicesInit

ThreadFrame == << file, config, last, emitted, due, late, call, objects, services >>

\* how many update() calls were started
Started == cycle + Cardinality({t \in Threads : threads[t].pc # "idle"})

\* a thread calls update() and arrives at "with self.lock"
ThreadCall(t) ==
    /\ threads[t].pc = "idle"
    /\ Started < MaxThreadCycles
    /\ threads' = [threads EXCEPT ![t] = [IdleThread EXCEPT !.pc = "lock"]]
    /\ UNCHANGED << ThreadFrame, _time, groups, data, cycle, gid, lock, handler >>

\* mutant: the thread enters without the lock being free
MutThreadAcquireAnyway(t) ==
    /\ threads[t].pc = "lock"
    /\ lock' = t
    /\ threads' = [threads EXCEPT ![t].pc = "clock"]
    /\ UNCHANGED << ThreadFrame, _time, groups, data, cycle, gid, handler >>

\* "with self.lock": the thread enters when the lock is free
ThreadAcquire(t) ==
    /\ threads[t].pc = "lock"
    /\ lock = NoThread
    /\ lock' = t
    /\ threads' = [threads EXCEPT ![t].pc = "clock"]
    /\ UNCHANGED << ThreadFrame, _time, groups, data, cycle, gid, handler >>

\* "_now = self.time()", time_from, time_to and the reset of the modified
\* flags
ThreadClock(t) ==
    /\ threads[t].pc = "clock"
    /\ \E now \in (IF simulated_time # NoTime THEN {SimulatedNow} ELSE RealNows) :
          /\ _time' = now
          /\ threads' = [threads EXCEPT ![t].pc = "open", ![t].now = now,
                            ![t].time_from = round_time_minutes(now - Minutes(DefaultTimeDelta),
                                                                DefaultTimeDelta),
                            ![t].time_to = round_time_minutes(now, DefaultTimeDelta)]
    /\ groups' = ResetModified(groups)
    /\ UNCHANGED << ThreadFrame, data, cycle, gid, lock, handler >>

\* the with block is left: the lock is released and update() has ended
Leave(t, outcome, own) ==
    /\ lock' = NoThread
    /\ cycle' = cycle + 1
    /\ threads' = [threads EXCEPT ![t].pc = "idle", ![t].outcome = outcome,
                                  ![t].ended = cycle + 1, ![t].own = own]

\* "self.reader.open()": the file is opened, or open() raises and the error
\* leaves update()
ThreadOpen(t) ==
    /\ threads[t].pc = "open"
    /\ \/ /\ handler' = "open"
          /\ threads' = [threads EXCEPT ![t].pc = "read"]
          /\ UNCHANGED << lock, cycle >>
       \/ /\ handler = NoHandle
          /\ Leave(t, "raised", << >>)
          /\ UNCHANGED handler
    /\ UNCHANGED << ThreadFrame, _time, groups, data, gid >>

\* "for entry in self.reader.read(...)": the entries are collected into the
\* groups; reading raises an error after k of them, or not at all
ThreadRead(t) ==
    /\ threads[t].pc = "read"
    /\ \E entries \in {Read(file, threads[t].time_from, threads[t].time_to, NoPos,
                              DefaultChunkSize)} :
       \E k \in 0..Len(entries), err \in BOOLEAN :
       \E st \in {CollectAll([groups |-> groups, gid |-> gid], SubSeq(entries, 1, k), 1)} :
          /\ ~err => k = Len(entries)
          /\ groups' = st.groups
          /\ gid' = st.gid
          /\ threads' = [threads EXCEPT ![t].pc = "close", ![t].err = err]
    /\ UNCHANGED << ThreadFrame, _time, data, cycle, lock, handler >>

\* mutant: the reader is closed only when reading raised no error
MutThreadCloseOnSuccess(t) ==
    /\ threads[t].pc = "close"
    /\ IF threads[t].err
       THEN Leave(t, "raised", << >>) /\ UNCHANGED handler
       ELSE /\ handler' = NoHandle
            /\ threads' = [threads EXCEPT ![t].pc = "emit"]
            /\ UNCHANGED << lock, cycle >>
    /\ UNCHANGED << ThreadFrame, _time, groups, data, gid >>

\* "finally: self.reader.close()"; an error raised by the reading then
\* leaves update()
ThreadClose(t) ==
    /\ threads[t].pc = "close"
    /\ handler' = NoHandle
    /\ IF threads[t].err
       THEN Leave(t, "raised", << >>)
       ELSE /\ threads' = [threads EXCEPT ![t].pc = "emit"]
            /\ UNCHANGED << lock, cycle >>
    /\ UNCHANGED << ThreadFrame, _time, groups, data, gid >>

\* time_emit, the emission and the pruning of the groups; update() returns
ThreadEmit(t) ==
    /\ threads[t].pc = "emit"
    /\ \E time_emit \in {round_time_minutes(threads[t].now - Minutes(buffer_minutes),
                                             DefaultTimeDelta)} :
          /\ data' = EmitData(groups, time_emit)
          /\ groups' = Retain(groups, time_emit)
    /\ Leave(t, "returned", data')
    /\ UNCHANGED << ThreadFrame, _time, gid, handler >>

ThreadNext ==
    \E t \in Threads :
        \/ ThreadCall(t)
        \/ ThreadAcquire(t)
        \/ ThreadClock(t)
        \/ ThreadOpen(t)
        \/ ThreadRead(t)
        \/ ThreadClose(t)
        \/ ThreadEmit(t)

ThreadSpec == ThreadInit /\ [][ThreadNext]_vars

\* ----------------------------------------- soaerrors() called from threads
\* the thread's soaerrors() has called update() and has not returned yet
InSoaErrors(t) ==
    /\ threads[t].caller = "soaerrors"
    /\ ~threads[t].returned
    /\ threads[t].outcome # "raised"

\* a thread calls soaerrors(): "self.update()" is entered
SoaErrorsCall(t) ==
    /\ threads[t].pc = "idle"
    /\ ~InSoaErrors(t)
    /\ Started < MaxThreadCycles
    /\ threads' = [threads EXCEPT ![t] = [IdleThread EXCEPT !.pc = "lock",
                                                            !.caller = "soaerrors"]]
    /\ UNCHANGED << ThreadFrame, _time, groups, data, cycle, gid, lock, handler >>

\* "return self.data", after update() returned and released the lock
SoaErrorsReturn(t) ==
    /\ threads[t].pc = "idle"
    /\ InSoaErrors(t)
    /\ threads[t].outcome = "returned"
    /\ threads' = [threads EXCEPT ![t].returned = TRUE, ![t].result = data]
    /\ UNCHANGED << ThreadFrame, _time, groups, data, cycle, gid, lock, handler >>

SoaErrorsNext ==
    \E t \in Threads :
        \/ SoaErrorsCall(t)
        \/ ThreadAcquire(t)
        \/ ThreadClock(t)
        \/ ThreadOpen(t)
        \/ ThreadRead(t)
        \/ ThreadClose(t)
        \/ ThreadEmit(t)
        \/ SoaErrorsReturn(t)

SoaErrorsSpec == ThreadInit /\ [][SoaErrorsNext]_vars

\* -------------------------------------------------------- DmsProvider.table
\* The DMS tables asked for, and how dms_collector.collect ends: with the
\* data, with a DataParserError or a TableNotExistError ("invalid"), or with
\* any other exception ("error").
DmsTables == {"ta", "tb"}
CollectOutcomes == {"data", "invalid", "error"}

\* str(threading.get_native_id()) + "/" + table
DmsId(t, tab) == << t, tab >>

\* the mapping m with value v stored under key k
Put(m, k, v) == [x \in (DOMAIN m) \cup {k} |-> IF x = k THEN v ELSE m[x]]

\* get_dms decides at time now whether the item of dms_id is replaced
Reconnects(id, now) ==
    \/ id \notin DOMAIN dms
    \/ dms[id].force_reconnect
    \/ now - dms[id].connect_time > reconnect_after

MutGetDmsKeepsFailed(id, now) ==
    IF id \notin DOMAIN dms \/ now - dms[id].connect_time > reconnect_after
    THEN [dms_id |-> id, dms_collector |-> collectors + 1, connect_time |-> now,
          force_reconnect |-> FALSE]
    ELSE dms[id]

\* the item get_dms returns: a new one around a new DmsCollector, or the one
\* stored (the readings of the clock in one call give the same second)
get_dms(id, now) ==
    IF Reconnects(id, now)
    THEN [dms_id |-> id, dms_collector |-> collectors + 1, connect_time |-> now,
          force_reconnect |-> FALSE]
    ELSE dms[id]

DmsInit ==
    /\ Constructed
    /\ file = << >>

\* thread t calls table(tab) and collect ends with res
CallTable(t, tab, res) ==
    \E id \in {DmsId(t, tab)} :
        \E item \in {get_dms(id, clock)} :
            \E c \in {[op |-> "table", outcome |-> res, used |-> item.dms_collector,
                       connect_time |-> item.connect_time,
                       after |-> IF id \in DOMAIN dms_calls
                                 THEN dms_calls[id].outcome ELSE "none"]} :
                /\ dms_call.n < MaxTableCalls
                /\ collectors' = IF item.dms_collector > collectors
                                 THEN item.dms_collector ELSE collectors
                /\ dms' = Put(dms, id, [item EXCEPT !.force_reconnect = (res = "invalid") \/ @])
                /\ dms_calls' = Put(dms_calls, id, c)
                /\ dms_call' = [op |-> "table", n |-> dms_call.n + 1, dms_id |-> id,
                                at |-> clock, made |-> collectors, cur |-> c,
                                prev |-> IF id \in DOMAIN dms_calls
                                         THEN dms_calls[id] ELSE NoDmsCall]
                /\ UNCHANGED << provider, objects, running, clock, reconnect_after, oravars,
                                spmvars >>

\* a second passes
Tick ==
    /\ clock < MaxClock
    /\ clock' = clock + 1
    /\ UNCHANGED << provider, objects, running, reconnect_after, dmsvars, oravars,
                    spmvars >>

DmsNext ==
    \/ \E t \in Threads, tab \in DmsTables, res \in CollectOutcomes : CallTable(t, tab, res)
    \/ Tick

DmsSpec == DmsInit /\ [][DmsNext]_vars

\* ----------------------------------------------------------- OraDBProvider
\* The SQL files of sql_files_dir: enough of them to reach the limit of
\* open connections.
SqlFiles == 1..(MaxConnections + 3)

\* str(threading.get_native_id) + "/" + fname: the text of the function
\* object, the same in every thread, not the id of the calling thread
ConnId(t, fname) == << "get_native_id", fname >>

\* the key of the provider that locks its items: fname
FileKey(t, fname) == fname

\* a cache item as open() creates it, without and with a lock
NewItem(fname) == [fname |-> fname, connection |-> NoConnection, connect_time |-> NoTime]
NewLockItem(fname) == [fname |-> fname, connection |-> NoConnection,
                       connect_time |-> NoTime, lock |-> NoThread]

\* the items of the cache that hold a connection
Connected(c, its) == {k \in DOMAIN c : its[c[k]].connection # NoConnection}
OpenConnections == {k \in 1..Len(connections) : connections[k] = "open"}

\* connection.close()
Close(conns, k) == IF k = NoConnection THEN conns ELSE [conns EXCEPT ![k] = "closed"]

\* open() with the item found or created under key: the cache, the items
\* and the connections it leaves, the item it returns and whether it raised
OpenItem(key, blank) ==
    IF key \in DOMAIN cache
    THEN [cache |-> cache, items |-> items, item |-> cache[key]]
    ELSE [cache |-> Put(cache, key, Len(items) + 1), items |-> Append(items, blank),
          item |-> Len(items) + 1]

Renews(it, now) ==
    \/ it.connection = NoConnection
    \/ now - it.connect_time > reconnect_after

open(key, blank, now) ==
    Let(OpenItem(key, blank), LAMBDA o :
        IF ~Renews(o.items[o.item], now)
        THEN [cache |-> o.cache, items |-> o.items, connections |-> connections,
              item |-> o.item, raised |-> FALSE]
        ELSE Let([o.items EXCEPT ![o.item].connection = NoConnection], LAMBDA closed :
                 IF Cardinality(Connected(o.cache, closed)) - 1 > max_connections
                 THEN [cache |-> o.cache, items |-> closed,
                       connections |-> Close(connections, o.items[o.item].connection),
                       item |-> o.item, raised |-> TRUE]
                 ELSE [cache |-> o.cache,
                       items |-> [closed EXCEPT ![o.item].connection = Len(connections) + 1,
                                                ![o.item].connect_time = now],
                       connections |-> Append(Close(connections, o.items[o.item].connection),
                                              "open"),
                       item |-> o.item, raised |-> FALSE]))

OraInit ==
    /\ Constructed
    /\ file = << >>

OraFrame == << provider, objects, running, reconnect_after, dmsvars, spmvars,
               max_connections >>

\* thread t calls sql(fname): open() and "cursor = item.connection.cursor()"
SqlOpen(t, fname) ==
    /\ workers[t].pc = "idle"
    /\ sql_calls < MaxSqlCalls
    /\ sql_calls' = sql_calls + 1
    /\ \E o \in {open(ConnId(t, fname), NewItem(fname), clock)} :
           /\ cache' = o.cache
           /\ items' = o.items
           /\ connections' = o.connections
           /\ workers' = [workers EXCEPT ![t] =
                  IF o.raised
                  THEN [IdleWorker EXCEPT !.outcome = "raised"]
                  ELSE [pc |-> "execute", item |-> o.item,
                        conn |-> o.items[o.item].connection, outcome |-> "none"]]
    /\ UNCHANGED << OraFrame, clock >>

\* the statement ends: with the rows, or with an error when the connection
\* was closed under it
SqlReturn(t) ==
    /\ workers[t].pc = "execute"
    /\ workers' = [workers EXCEPT ![t] =
           [IdleWorker EXCEPT !.outcome = IF connections[workers[t].conn] = "open"
                                          THEN "data" ELSE "raised"]]
    /\ UNCHANGED << OraFrame, clock, cache, items, connections, sql_calls >>

\* destroy(): every connection of the cache is closed and the cache emptied
Destroy ==
    /\ cache # << >>
    /\ connections' = [k \in 1..Len(connections) |->
           IF \E key \in DOMAIN cache : items[cache[key]].connection = k
           THEN "closed" ELSE connections[k]]
    /\ items' = [i \in 1..Len(items) |->
           IF \E key \in DOMAIN cache : cache[key] = i
           THEN [items[i] EXCEPT !.connection = NoConnection] ELSE items[i]]
    /\ cache' = << >>
    /\ UNCHANGED << OraFrame, clock, workers, sql_calls >>

OraNext ==
    \/ \E t \in Threads, fname \in SqlFiles : SqlOpen(t, fname)
    \/ \E t \in Threads : SqlReturn(t)
    \/ Destroy
    \/ Tick

OraSpec == OraInit /\ [][OraNext]_vars

\* ---------------------------------------- OraDBProvider that locks its items
\* thread t calls sql(fname): "item = self.open(sql_file)", before the lock
LockOpen(t, fname) ==
    /\ workers[t].pc = "idle"
    /\ sql_calls < MaxLockCalls
    /\ sql_calls' = sql_calls + 1
    /\ \E o \in {open(FileKey(t, fname), NewLockItem(fname), clock)} :
           /\ cache' = o.cache
           /\ items' = o.items
           /\ connections' = o.connections
           /\ workers' = [workers EXCEPT ![t] =
                  IF o.raised
                  THEN [IdleWorker EXCEPT !.outcome = "raised"]
                  ELSE [pc |-> "lock", item |-> o.item, conn |-> NoConnection,
                        outcome |-> "none"]]
    /\ UNCHANGED << OraFrame, clock >>

\* "with item.lock" is entered and "cursor = item.connection.cursor()" made:
\* it raises, and the lock is released, when the item holds no connection
LockAcquire(t) ==
    /\ workers[t].pc = "lock"
    /\ items[workers[t].item].lock = NoThread
    /\ IF items[workers[t].item].connection = NoConnection
       THEN /\ workers' = [workers EXCEPT ![t] = [IdleWorker EXCEPT !.outcome = "raised"]]
            /\ UNCHANGED items
       ELSE /\ workers' = [workers EXCEPT ![t].pc = "execute",
                                          ![t].conn = items[workers[t].item].connection]
            /\ items' = [items EXCEPT ![workers[t].item].lock = t]
    /\ UNCHANGED << OraFrame, clock, cache, connections, sql_calls >>

\* the statement ends, with the rows or with an error when the connection
\* was closed under it, and "with item.lock" is left
LockReturn(t) ==
    /\ workers[t].pc = "execute"
    /\ workers' = [workers EXCEPT ![t] =
           [IdleWorker EXCEPT !.outcome = IF connections[workers[t].conn] = "open"
                                          THEN "data" ELSE "raised"]]
    /\ items' = [items EXCEPT ![workers[t].item].lock = NoThread]
    /\ UNCHANGED << OraFrame, clock, cache, connections, sql_calls >>

LockNext ==
    \/ \E t \in Threads, fname \in SqlFiles : LockOpen(t, fname)
    \/ \E t \in Threads : LockAcquire(t)
    \/ \E t \in Threads : LockReturn(t)
    \/ Destroy
    \/ Tick

LockSpec == OraInit /\ [][LockNext]_vars

\* ------------------------------------------------------- SPMProvider.status
\* The host ids asked for, and how the Status service call ends.
HostIds == {"ha", "hb"}
StatusOutcomes == {"status", "fault"}

\* update() fetches the status of hostid at time now
Fetches(hostid, now) ==
    \/ hostid \notin DOMAIN spm_data
    \/ now - _updated_time > max_age

SpmInit ==
    /\ Constructed
    /\ file = << >>

\* status(hostid) is called and the Status service call, when update()
\* makes it, ends with res: the status is returned or the call raises
CallStatus(hostid, res) ==
    /\ spm_call.n < MaxStatusCalls
    /\ IF Fetches(hostid, clock)
       THEN IF res = "fault"
            THEN /\ spm_call' = [op |-> "status", n |-> spm_call.n + 1, hostid |-> hostid,
                                 at |-> clock, returned |-> FALSE, fetched |-> NoTime]
                 /\ UNCHANGED << spm_data, _updated_time >>
            ELSE /\ spm_data' = Put(spm_data, hostid, clock)
                 /\ _updated_time' = clock
                 /\ spm_call' = [op |-> "status", n |-> spm_call.n + 1, hostid |-> hostid,
                                 at |-> clock, returned |-> TRUE, fetched |-> clock]
       ELSE /\ res = "status"
            /\ spm_call' = [op |-> "status", n |-> spm_call.n + 1, hostid |-> hostid,
                            at |-> clock, returned |-> TRUE, fetched |-> spm_data[hostid]]
            /\ UNCHANGED << spm_data, _updated_time >>
    /\ UNCHANGED << provider, objects, running, clock, reconnect_after, dmsvars, oravars,
                    max_age >>

SpmNext ==
    \/ \E hostid \in HostIds, res \in StatusOutcomes : CallStatus(hostid, res)
    \/ Tick

SpmSpec == SpmInit /\ [][SpmNext]_vars

\* ------------------------------------------------------------------- claims
Range(q) == {q[k] : k \in 1..Len(q)}
Gids(q) == {x.gid : x \in Range(q)}
\* the groups as the last update() left them when reading ended, before the
\* emission step
ReadGroups == Range(last.read)
BeforeBoundary(g) == GroupTime(g) < last.time_emit

\* C1 (as claimed): a group whose first entry's time is before the emission
\* boundary and that received an entry during the cycle is neither emitted
\* nor removed: it is in the active set when the cycle ends.
C1_HeldBack ==
    \A g \in ReadGroups :
        (BeforeBoundary(g) /\ g.modified)
            => (g.gid \in Gids(groups) /\ g.gid \notin Gids(data))

\* the code removes such a group without emitting it
C1_Dropped ==
    \A g \in ReadGroups :
        (BeforeBoundary(g) /\ g.modified)
            => (g.gid \notin Gids(groups) /\ g.gid \notin Gids(data))
C1_DroppedWitness ==
    \E g \in ReadGroups : BeforeBoundary(g) /\ g.modified /\ Len(g.entries) > 1

C3_EmittedOrActive ==
    \A id \in 1..(gid - 1) : id \in Gids(groups) \/ \E e \in emitted : e[1] = id

\* C4 (as claimed): entries of flow "1001" at minutes 0, 1 and 3 in the file
\* before the first poll, a 2-minute buffer, the simulated clock started at
\* minute 0 with delta 1: the cycle run at minute 5 emits one summary for
\* the flow, with first time minute 0, time span 3 minutes and 3 entries.
ScenarioLines == SelectSeq(file, LAMBDA l : l.flow = "1001")
ScenarioRun ==
    /\ simulated_time = 0
    /\ simulated_time_delta = 1
    /\ buffer_minutes = 2
    /\ ~late
    /\ Len(ScenarioLines) = 3
    /\ ScenarioLines[1].time = 0
    /\ ScenarioLines[2].time = Minutes(1)
    /\ ScenarioLines[3].time = Minutes(3)
    /\ _time = Minutes(5)
C4_Scenario ==
    ScenarioRun =>
        /\ Cardinality({k \in 1..Len(data) : data[k].flow_id = "1001"}) = 1
        /\ \E x \in Range(data) :
              /\ x.flow_id = "1001"
              /\ x.time = 0
              /\ x.timespan = Minutes(3)
              /\ x.num_entries = 3

\* C5: all entries held by one group have the same flow id.
C5_OneFlowPerGroup ==
    \A g \in Range(groups) \cup ReadGroups :
        \A e1, e2 \in Range(g.entries) : e1.flow_id = e2.flow_id
C5_Witness ==
    \E g1, g2 \in Range(groups) :
        /\ GroupFlowId(g1) # GroupFlowId(g2)
        /\ \E e1, e2 \in Range(g1.entries) : e1.inx # e2.inx

\* EntryGroup.add_entry (log/outlog.py)
EntryGroupAddEntry(g, entry) ==
    [g EXCEPT !.first_time = IF @ = NoTime \/ @ > entry.time THEN entry.time ELSE @,
              !.last_time = IF @ = NoTime \/ @ < entry.time THEN entry.time ELSE @,
              !.entries = Append(@, entry)]
\* EntryGroup.__init__
EntryGroup == [entries |-> << >>, first_time |-> NoTime, last_time |-> NoTime]
RECURSIVE EntryGroupOf(_, _)
\* an EntryGroup to which the first k of the entries were added in turn
EntryGroupOf(entries, k) ==
    IF k = 0 THEN EntryGroup
    ELSE EntryGroupAddEntry(EntryGroupOf(entries, k - 1), entries[k])

\* C6: first_time is at most the time of each entry of the group and
\* last_time at least, whatever the order the entries were appended in; the
\* same for an EntryGroup that is given the entries read in a cycle.
Spans(g) == \A e \in Range(g.entries) : g.first_time <= e.time /\ e.time <= g.last_time
C6_FirstLastBound ==
    /\ \A g \in Range(groups) \cup ReadGroups : Spans(g)
    /\ Spans(EntryGroupOf(last.entries, Len(last.entries)))
OutOfOrder(q) == \E j, k \in 1..Len(q) : j < k /\ q[j].time > q[k].time
C6_Witness ==
    /\ \E g \in Range(groups) : OutOfOrder(g.entries)
    /\ OutOfOrder(last.entries)

\* C7 (as claimed): each log entry of the file is appended to at most one
\* group and at most once.
C7_AppendedOnce ==
    \A g1, g2 \in Range(groups) :
        \A k1 \in 1..Len(g1.entries), k2 \in 1..Len(g2.entries) :
            g1.entries[k1].inx = g2.entries[k2].inx => (g1.gid = g2.gid /\ k1 = k2)

\* C8 (as claimed): an entry is never appended to a group that already holds
\* an entry with its component: a new group is opened for it instead, so no
\* group holds two log entries with the same component.
SameComponent(g) ==
    {<< j, k >> \in (1..Len(g.entries)) \X (1..Len(g.entries)) :
        /\ j < k
        /\ g.entries[j].inx # g.entries[k].inx
        /\ g.entries[j].component = g.entries[k].component}
C8_ComponentOncePerGroup == \A g \in ReadGroups : SameComponent(g) = {}

\* C8 (amended): an entry with a non-null flow id is appended to the active
\* group that has its flow id, whatever components the group holds, and a
\* new group is opened only when no active group has the flow id: the groups
\* have pairwise different flow ids and hold every such entry read.
C8_AppendedByFlowIdOnly ==
    /\ \A g1, g2 \in ReadGroups : GroupFlowId(g1) = GroupFlowId(g2) => g1.gid = g2.gid
    /\ \A e \in Range(last.entries) :
          e.flow_id # NoFlow =>
              \E g \in ReadGroups : GroupFlowId(g) = e.flow_id /\ e \in Range(g.entries)
\* an entry read in the last cycle joined a group holding its component
C8_Witness ==
    \E g \in ReadGroups : \E p \in SameComponent(g) : g.entries[p[2]] \in Range(last.entries)

\* C9 (as claimed): the window starts at the previous cycle's poll time minus
\* the time delta, ends at now rounded down, and begins no later than the
\* window of the cycle before ended.
C9_FromPreviousPoll ==
    cycle >= 2 =>
        /\ last.time_from = round_time_minutes(last.prev - Minutes(DefaultTimeDelta), DefaultTimeDelta)
        /\ last.time_to = round_time_minutes(last.now, DefaultTimeDelta)
        /\ last.time_from <= last.prev_to

\* C9 (amended): the window starts at the current now minus the time delta,
\* rounded down to the time delta, and ends at the current now rounded down;
\* consecutive windows leave no stretch of log time unread when the interval
\* between the two polls is at most the time delta.
WholeMinute(t) == t % Minutes(DefaultTimeDelta) = 0
C9_WindowFromNow ==
    cycle >= 1 =>
        /\ WholeMinute(last.time_to)
        /\ last.time_to <= last.now
        /\ last.now < last.time_to + Minutes(DefaultTimeDelta)
        /\ last.time_from = last.time_to - Minutes(DefaultTimeDelta)
        /\ (cycle >= 2 /\ last.now - last.prev <= Minutes(DefaultTimeDelta))
               => last.time_from <= last.prev_to
\* two polls at most one time delta apart, the later one off the minute
C9_Witness ==
    /\ cycle >= 2
    /\ last.now - last.prev <= Minutes(DefaultTimeDelta)
    /\ ~WholeMinute(last.now)

\* C10 (as claimed): the emission test and the time of the summary use the
\* group's earliest entry time first_time.
C10_EarliestTime ==
    \A g \in ReadGroups :
        /\ (g.first_time < last.time_emit /\ ~g.modified) => g.gid \in Gids(data)
        /\ \A x \in Range(data) : x.gid = g.gid => x.time = g.first_time

\* ------------------------------------------------ claims about the reader
WholeLine(f, i) == [i |-> i, a |-> 0, b |-> f[i].len]
\* the lines of the file that parse as an entry header
HeaderLines(f) == {i \in 1..Len(f) : ParseHeaderOk(f, WholeLine(f, i))}
NonDecreasing(f) == \A i, j \in HeaderLines(f) : i < j => f[i].time <= f[j].time
StrictlyIncreasing(f) == \A i, j \in HeaderLines(f) : i < j => f[i].time < f[j].time
Terminated(f) == \A i \in 1..Len(f) : f[i].nl = 1
Yielded == Range(call.out)

\* C11 (as claimed): every entry yielded by read(time_from = t1, ...) on a
\* file with non-decreasing timestamps has a time of at least t1 (stated for
\* the files that end with a newline).
C11_NotBeforeTimeFrom ==
    (call.op = "read" /\ call.time_from # NoTime /\ NonDecreasing(file) /\ Terminated(file))
        => \A e \in Yielded : e.time >= call.time_from

\* C12 (as claimed): every entry yielded by read(..., time_to = t2) has a
\* time of at most t2, no entry is yielded from behind the first header line
\* whose time exceeds t2, and (no count given) an entry stamped t2 that lies
\* before that line is yielded.
Exceeding ==
    {i \in HeaderLines(file) :
        LineStart(file, i) >= call.start_pos /\ file[i].time > call.time_to}
C12_UpToTimeTo ==
    (call.op = "read" /\ call.time_to # NoTime /\ call.start_pos >= 0 /\ Terminated(file))
        => /\ \A e \in Yielded : e.time <= call.time_to
           /\ \A e \in Yielded : \A i \in Exceeding : e.inx < i
           /\ call.count = NoPos =>
                 \A i \in HeaderLines(file) :
                     (/\ LineStart(file, i) >= call.start_pos
                      /\ file[i].time = call.time_to
                      /\ \A j \in Exceeding : i < j)
                         => \E e \in Yielded : e.inx = i

\* C13 (as claimed): for a fixed file and fixed arguments read yields the
\* same entries, with the same lines, for every chunk size (stated for the
\* files that end with a newline, read from the start of the file).
C13_SameForEveryChunkSize ==
    (call.op = "read" /\ call.time_from = NoTime /\ Terminated(file))
        => \A chunk_size \in ChunkSizes :
              Read(file, call.time_from, call.time_to, call.count, chunk_size) = call.out

\* C14 (as claimed): read called with count = n yields at most n entries
\* (stated for the files that end with a newline).
C14_AtMostCount ==
    (call.op = "read" /\ call.count # NoPos /\ Terminated(file))
        => Len(call.out) <= call.count

\* C15 (as claimed): every entry read yields has had finish() invoked exactly
\* once, the entry still open at the end of the stream included, so that its
\* flow id is the one its payload contains (stated for the files that end
\* with a newline).
C15_FinishedOnce ==
    (call.op = "read" /\ Terminated(file))
        => \A e \in Yielded : e.finished = 1 /\ e.flow_id = FirstFlow(file, e.lines, 1)

\* C16 (as claimed): when the file ends without a newline, the text behind
\* the last newline is a line of a yielded entry (the file read from its
\* start without time_to or count, and holding a header line).
C16_LastLineProcessed ==
    (/\ call.op = "read"
     /\ call.time_from = NoTime /\ call.time_to = NoTime /\ call.count = NoPos
     /\ ~Terminated(file)
     /\ HeaderLines(file) # {})
        => \E e \in Yielded : WholeLine(file, Len(file)) \in Range(e.lines)

\* C17: when find(time_from) returns -1, read(time_from, ...) yields no entry
\* and makes no handler.read call.
C17_NothingWhenNotFound ==
    (/\ call.op = "read"
     /\ call.time_from # NoTime
     /\ Find(file, call.time_from, call.chunk_size) = 0 - 1)
        => call.out = << >> /\ call.reads = 0
\* find returned -1 on a file that holds an entry
C17_Witness ==
    /\ call.op = "read"
    /\ call.time_from # NoTime
    /\ Find(file, call.time_from, call.chunk_size) = 0 - 1
    /\ HeaderLines(file) # {}

\* the header lines whose time is at or after the time find was called with
AtOrAfter == {i \in HeaderLines(file) : file[i].time >= call.time_from}

\* C18 (as claimed): on a file with strictly increasing timestamps find(t)
\* returns an offset at or before the start of the first entry whose time is
\* at or after t: no entry that starts before it has such a time.
C18_AtOrBeforeFirst ==
    (call.op = "find" /\ StrictlyIncreasing(file) /\ Terminated(file))
        => \A i \in AtOrAfter : call.start_pos <= LineStart(file, i)

\* C19 (as claimed): on a file with strictly increasing timestamps, when
\* find(t) returns an offset o >= 0 the first entry header at or after o has
\* a time at or after t.
C19_NextAtOrAfter ==
    (call.op = "find" /\ StrictlyIncreasing(file) /\ Terminated(file) /\ call.start_pos >= 0)
        => LET behind == {i \in HeaderLines(file) : LineStart(file, i) >= call.start_pos}
           IN  \E i \in behind : /\ \A j \in behind : i <= j
                                  /\ file[i].time >= call.time_from

\* C20 (as claimed): find(t) returns -1 exactly when the file holds no entry
\* whose time is at or after t.
C20_NotFoundExactly ==
    (call.op = "find" /\ Terminated(file))
        => (call.start_pos = 0 - 1 <=> AtOrAfter = {})

\* ---------------------------------------------------- claims about find run
\* C21 (as claimed): LogReader.find terminates: every probe of the outer
\* loop strictly shrinks end, strictly advances start or ends the search, and
\* every turn of the inner loop advances the scanned position or ends the
\* loop (a turn that does neither is repeated for ever).
C21_FindTerminates ==
    /\ frame.pc = "decide"
          => \E nx \in {DecideTurn(frame)} :
                nx.pc = "done" \/ nx.end < frame.end \/ nx.start > frame.start
    /\ frame.pc = "inner"
          => \E nx \in {ReadChunkTurn(file, frame)} :
                nx.pc # "inner" \/ nx.chunk_pos > frame.chunk_pos

\* ------------------------------------------------- claims about an entry
\* C22 (as claimed): when parse_header returns false the entry's time, type,
\* component, diagnostic code, payload start offset and lines have the values
\* they had before the call.
C22_UnchangedOnFailure ==
    (entry_call.op = "parse_header" /\ ~entry_call.ret)
        => /\ logentry.time = entry_call.before.time
           /\ logentry.type = entry_call.before.type
           /\ logentry.component = entry_call.before.component
           /\ logentry.bea_code = entry_call.before.bea_code
           /\ logentry.startinx_payload = entry_call.before.startinx_payload
           /\ logentry.lines = entry_call.before.lines

\* message[n:]
Behind(s, n) == Slice(s, n, Len(s))

\* C23 (as claimed): for every finalized entry, payload equals message with
\* its first startinx_payload characters removed, the empty string when the
\* message ends where the header ends.
C23_PayloadIsMessageTail ==
    logentry.finished
        => payload(logentry).val = Behind(Join(logentry.lines, 1), logentry.startinx_payload)

\* C24: after any sequence of add_line calls and reads of message and payload,
\* message is the entry's current lines joined by newline.
C24_MessageIsJoinedLines == message(logentry).val = Join(logentry.lines, 1)

\* a line was appended to an entry whose message had been read and cached
C24_Witness ==
    /\ entry_call.op = "add_line"
    /\ entry_call.before._message # None
    /\ entry_call.before._payload # None
    /\ entry_call.before._message # Join(logentry.lines, 1)

\* ------------------------------------------------- claims about field rules
RECURSIVE Applicable(_, _, _, _)
\* the definitions of the field name n in the rules k.. that apply to the
\* component, in the order of the configuration
Applicable(rs, k, comp, n) ==
    IF k > Len(rs) THEN << >>
    ELSE (IF ComponentMatches(rs[k], comp)
          THEN SelectSeq(rs[k].fields, LAMBDA d : d.field = n) ELSE << >>)
         \o Applicable(rs, k + 1, comp, n)

\* the value eval_rules assigns for one definition taken alone
DefinitionValue(d, text) == EvalField([n \in FieldNames |-> Unset], d, text)[d.field]

\* C25 (as claimed): within one eval_rules call the first applicable
\* definition of a field name decides the field's value, also when that value
\* is null; a later definition of the name never replaces it.
C25_FirstDefinitionDecides ==
    \A i \in 1..Len(evals) : \A n \in FieldNames :
        \E defs \in {Applicable(evals[i].before, 1, evals[i].component, n)} :
            Len(defs) > 0 => evals[i].fields[n] = DefinitionValue(defs[1], evals[i].payload)

\* C26 (as claimed): for a field name with one applicable definition,
\* eval_rules assigns the literal value, or else the first matched substring,
\* whenever the pattern matches anywhere in the payload, and null only when
\* it matches nowhere.
C26_ValueWhereverMatched ==
    \A i \in 1..Len(evals) : \A n \in FieldNames :
        \E defs \in {Applicable(evals[i].before, 1, evals[i].component, n)} :
            Len(defs) = 1 =>
                \E m \in {Search(defs[1].pattern, evals[i].payload, 0)} :
                    evals[i].fields[n] =
                        IF m = NoPos THEN None
                        ELSE IF defs[1].value # None THEN defs[1].value
                        ELSE Group(evals[i].payload, m)

C28_OneClockValuePerCycle ==
    cycle >= 1 =>
        /\ _time = last.now
        /\ last.time_from = round_time_minutes(last.now - Minutes(DefaultTimeDelta), DefaultTimeDelta)
        /\ last.time_to = round_time_minutes(last.now, DefaultTimeDelta)
        /\ last.time_emit = round_time_minutes(last.now - Minutes(buffer_minutes), DefaultTimeDelta)
        /\ simulated_time # NoTime
              => last.now = simulated_time + (cycle - 1) * Minutes(simulated_time_delta)

\* the third cycle of a provider whose simulated clock advances two minutes
\* a call
C28_Witness ==
    /\ simulated_time # NoTime
    /\ simulated_time_delta = DefaultSimulatedDelta + 1
    /\ cycle = 3
    /\ last.now = simulated_time + Minutes(4)

\* ------------------------------------------- claims about update() in threads
\* the thread is between its entry into the with block and its leaving it
InCycle(t) == threads[t].pc \in {"clock", "open", "read", "close", "emit"}

\* C29: polling cycles of several threads do not interleave: while one thread
\* is between its clock read and its pruning of the groups, no other thread
\* is inside a cycle, and the file handle is open only inside a cycle.
C29_CyclesDoNotInterleave ==
    /\ \A t, u \in Threads : (InCycle(t) /\ InCycle(u)) => t = u
    /\ \A t \in Threads : InCycle(t) => lock = t
    /\ handler # NoHandle => \E t \in Threads : threads[t].pc \in {"read", "close"}

\* one thread has read the log into the groups and has not closed the file
\* yet, while the other waits for the lock
C29_Witness ==
    \E t, u \in Threads :
        /\ threads[t].pc = "close"
        /\ threads[u].pc = "lock"
        /\ handler # NoHandle
        /\ Len(groups) > 0

\* C30: when update() ends, by returning or by an error raised while reading
\* the log, the reader's file handle is closed and the lock is released; an
\* error reaches the caller.
C30_ClosedAndReleasedAtEnd ==
    [][\A t \in Threads :
          (threads[t].pc # "idle" /\ threads'[t].pc = "idle")
              => /\ handler' = NoHandle
                 /\ lock' = NoThread
                 /\ threads[t].err => threads'[t].outcome = "raised"]_vars

\* an update() that ended by an error raised while reading, followed by a
\* cycle that ran and returned
C30_Witness ==
    \E t, u \in Threads :
        /\ threads[t].outcome = "raised" /\ threads[t].err
        /\ threads[u].outcome = "returned"
        /\ threads[u].ended = threads[t].ended + 1
        /\ threads[t].pc = "idle" /\ threads[u].pc = "idle"

\* ------------------------------------------- claims about the active groups
\* C31: no two groups of the active set have the same flow id: a new group is
\* opened for an entry only when no active group has the entry's flow id.
C31_OneGroupPerFlowId ==
    \A i, j \in 1..Len(groups) : GroupFlowId(groups[i]) = GroupFlowId(groups[j]) => i = j

\* two active groups of different flow ids, one of which received a second
\* entry
C31_Witness ==
    /\ Len(groups) = 2
    /\ \E i \in 1..Len(groups) : Len(groups[i].entries) >= 2

\* ------------------------------------------------ claims about soaerrors()
\* C32 (as claimed): when soaerrors() is called concurrently from two
\* threads, each call returns exactly the summaries emitted by its own update
\* cycle.
C32_ReturnsOwnSummaries ==
    \A t \in Threads :
        (threads[t].caller = "soaerrors" /\ threads[t].returned)
            => threads[t].result = threads[t].own

\* C33: when the table() call a thread made last for a table ended with a
\* DataParserError or a TableNotExistError, its next table() call for that
\* table uses a DmsCollector created by that call, not the one that failed,
\* and leaves the item's force_reconnect flag reset unless it fails the same
\* way; a call that follows one that did not fail that way, made while no
\* more than reconnect_after seconds passed since the collector was
\* created, uses the same collector.
C33_ReconnectsAfterFailure ==
    (dms_call.op = "table" /\ dms_call.prev.op = "table") =>
        /\ dms_call.prev.outcome = "invalid" =>
               /\ dms_call.cur.used > dms_call.made
               /\ dms_call.cur.used # dms_call.prev.used
               /\ dms[dms_call.dms_id].dms_collector = dms_call.cur.used
               /\ dms_call.cur.outcome # "invalid"
                      => ~dms[dms_call.dms_id].force_reconnect
        /\ (/\ dms_call.prev.outcome # "invalid"
            /\ dms_call.at - dms_call.prev.connect_time <= reconnect_after)
               => dms_call.cur.used = dms_call.prev.used

\* a call failed, the next one succeeded with a new collector, and a later
\* call succeeded with that collector
C33_Witness ==
    /\ dms_call.op = "table"
    /\ dms_call.prev.op = "table"
    /\ dms_call.prev.after = "invalid"
    /\ dms_call.prev.outcome = "data"
    /\ dms_call.cur.outcome = "data"
    /\ dms_call.at > dms_call.prev.connect_time
    /\ dms_call.cur.used = dms_call.prev.used
    /\ dms_call.cur.used > 1

\* C34 (as claimed): two threads that are executing a statement at the same
\* time, for the same SQL file or not, have each their own cache item and
\* their own connection.
C34_OwnConnection ==
    \A t1, t2 \in Threads :
        (t1 # t2 /\ workers[t1].pc = "execute" /\ workers[t2].pc = "execute")
            => /\ workers[t1].item # workers[t2].item
               /\ workers[t1].conn # workers[t2].conn

\* C35 (as claimed): the cache items that hold an open connection are at
\* most max_connections.
C35_AtMostMaxConnections ==
    /\ Cardinality(Connected(cache, items)) <= max_connections
    /\ Cardinality(OpenConnections) <= max_connections

\* C36 (as claimed): the connection on which a thread that holds the item's
\* lock is executing a statement is open.
C36_OpenWhileExecuting ==
    \A t \in Threads :
        (workers[t].pc = "execute" /\ items[workers[t].item].lock = t)
            => connections[workers[t].conn] = "open"

\* C37 (as claimed): the status that status(hostid) returns was fetched no
\* more than max_age seconds before the call.
C37_NoStaleStatus ==
    (spm_call.op = "status" /\ spm_call.returned)
        => spm_call.at - spm_call.fetched <= max_age

====
